---------------------------- MODULE Spec2Model ----------------------------
(***************************************************************************)
(* Admission pipeline of the bakery order API (src/app_optimized.py):      *)
(* the rate_limit middleware, the OrderCreate/OrderItem body validation,   *)
(* validate_telegram_init_data and the create_order handler.               *)
(*                                                                         *)
(* Conventions.                                                            *)
(*  - A Python str is a sequence of tokens (TLA+ strings); the tokens "&", *)
(*    "=" and "\n" are the separator characters the code splits and joins  *)
(*    on, every other token is a run of characters free of them.           *)
(*  - Money (float in the code) is counted in hundredths.                  *)
(*  - Optional[T] is a record [some |-> BOOLEAN, val |-> T].               *)
(*  - The server runs one event loop (uvicorn workers=1): the code between *)
(*    two awaits of a coroutine is one action.                             *)
(***************************************************************************)
EXTENDS Integers, Sequences, FiniteSets, TLC

VARIABLES
    now,             \* the clock read by datetime.utcnow().timestamp()
    request_counts,  \* app_optimized.request_counts: ip -> [count, reset_time]
    pc,              \* per in-flight request slot: where its coroutine stands
    req,             \* per slot: the request [ip, body] it carries
    resp,            \* per slot: status code of the response (0: none yet)
    user,            \* per slot: the handler's local `user`
    checks,          \* per slot: the checks evaluated for the request, in order
    orders,          \* rows handed to db.add, in order
    vlog,            \* per slot: the event validate_telegram_init_data logged
    evicted,         \* the addresses the last run of the sweep deleted
    arrivals,        \* per address with a counter: requests sent and admitted
                     \* since the counter was created
    db_order,        \* per slot: the handler's local `db_order`
    committed        \* rows of the orders table, in the order they were committed

vars == <<now, request_counts, pc, req, resp, user, checks, orders, vlog,
          evicted, arrivals, db_order, committed>>

-----------------------------------------------------------------------------
(* Program constants *)

RATE_LIMIT == 30
RATE_WINDOW == 60
SWEEP_AGE == 60
MAX_AUTH_AGE == 86400
QTY_MIN == 1
QTY_MAX == 100
PRICE_MAX_CENTS == 100000
TOTAL_MAX_CENTS == 1000000
MAX_ITEMS == 50
NOTES_MAX == 500
TOLERANCE_CENTS == 1

(* Bounds of the model *)

MaxElapsed == 122      \* the clock runs from StartTime to StartTime + MaxElapsed
MaxOrders == 1         \* rows stored before the model stops sending orders
MaxArrivals == 31      \* requests an address sends while one counter lives
MaxListed == 2         \* length of the item lists enumerated item by item

StartTime == 20000 * MAX_AUTH_AGE

Min(a, b) == IF a < b THEN a ELSE b
Abs(x) == IF x < 0 THEN -x ELSE x

Some(v) == [some |-> TRUE, val |-> v]
NoNote == [some |-> FALSE, val |-> <<>>]      \* notes = None
NoUser == [some |-> FALSE, val |-> [id |-> 0]] \* user = None

-----------------------------------------------------------------------------
(* rate_limit middleware, lines 172-194 *)

\* the sweep of line 180 with the age compared against -60
SweepKeepsSignSlip(counts, t) ==
    {ip \in DOMAIN counts : ~(t - counts[ip].reset_time > -SWEEP_AGE)}

\* lines 179-181: the entries the sweep keeps
SweepKeeps(counts, t) ==
    {ip \in DOMAIN counts : ~(t - counts[ip].reset_time > SWEEP_AGE)}

Sweep(counts, t) == [ip \in SweepKeeps(counts, t) |-> counts[ip]]

\* the limit test of line 185 with > for >=
OverLimitOffByOne(entry) == entry.count > RATE_LIMIT

\* line 185: the limit test on an existing entry
OverLimit(entry) == entry.count >= RATE_LIMIT

\* line 192: a fresh entry
NewEntry(t) == [count |-> 1, reset_time |-> t + RATE_WINDOW]

\* lines 184-192 on the swept mapping: the verdict
GateAdmits(counts, ip) ==
    IF ip \in DOMAIN counts THEN ~OverLimit(counts[ip]) ELSE TRUE

\* lines 184-192 with the counter written anew instead of incremented
GateUpdateOverwrite(counts, ip, t) ==
    IF ip \in DOMAIN counts /\ OverLimit(counts[ip])
    THEN counts
    ELSE [x \in DOMAIN counts \cup {ip} |->
            IF x = ip THEN NewEntry(t) ELSE counts[x]]

\* lines 184-192 on the swept mapping: the mapping afterwards
GateUpdate(counts, ip, t) ==
    IF ip \in DOMAIN counts
    THEN IF OverLimit(counts[ip])
         THEN counts
         ELSE [counts EXCEPT ![ip].count = @ + 1]
    ELSE [x \in DOMAIN counts \cup {ip} |->
            IF x = ip THEN NewEntry(t) ELSE counts[x]]

-----------------------------------------------------------------------------
(* Python str operations used by validate_telegram_init_data *)

Contains(s, tok) == \E i \in 1..Len(s) : s[i] = tok

\* index of the first occurrence of tok in s (s contains tok)
FirstIndex(s, tok) ==
    CHOOSE i \in 1..Len(s) : s[i] = tok /\ \A j \in 1..(i - 1) : s[j] # tok

\* str.split(sep): never empty, "" splits to [""]
RECURSIVE Split(_, _)
Split(s, sep) ==
    IF ~Contains(s, sep)
    THEN <<s>>
    ELSE LET i == FirstIndex(s, sep)
         IN  <<SubSeq(s, 1, i - 1)>> \o Split(SubSeq(s, i + 1, Len(s)), sep)

\* sep.join(parts)
RECURSIVE Join(_, _)
Join(parts, sep) ==
    IF Len(parts) = 0 THEN <<>>
    ELSE IF Len(parts) = 1 THEN parts[1]
    ELSE parts[1] \o <<sep>> \o Join(Tail(parts), sep)

\* param.split('=', 1)
KeyOf(param) == SubSeq(param, 1, FirstIndex(param, "=") - 1)
ValueOf(param) == SubSeq(param, FirstIndex(param, "=") + 1, Len(param))

\* line 206: the segments the parser reads
HasPair(param) == Contains(param, "=")

\* the loop of lines 204-208 keeping the first value of a repeated key
ParseParamsFirstWins(init_data) ==
    LET segs  == Split(init_data, "&")
        pairs == SelectSeq(segs, HasPair)
        keys  == {KeyOf(pairs[i]) : i \in 1..Len(pairs)}
        first(k) == CHOOSE i \in 1..Len(pairs) :
                       /\ KeyOf(pairs[i]) = k
                       /\ \A j \in 1..(i - 1) : KeyOf(pairs[j]) # k
    IN  [k \in keys |-> ValueOf(pairs[first(k)])]

\* the loop of lines 204-208 reading a segment without "=" as a key with an
\* empty value
ParseParamsKeepBare(init_data) ==
    LET segs == Split(init_data, "&")
        key(i) == IF HasPair(segs[i]) THEN KeyOf(segs[i]) ELSE segs[i]
        val(i) == IF HasPair(segs[i]) THEN ValueOf(segs[i]) ELSE <<>>
        last(k) == CHOOSE i \in 1..Len(segs) :
                      key(i) = k /\ \A j \in (i + 1)..Len(segs) : key(j) # k
    IN  [k \in {key(i) : i \in 1..Len(segs)} |-> val(last(k))]

\* lines 204-208: the mapping after the loop; a later assignment to a key
\* overwrites an earlier one
ParseParams(init_data) ==
    LET segs  == Split(init_data, "&")
        pairs == SelectSeq(segs, HasPair)
        keys  == {KeyOf(pairs[i]) : i \in 1..Len(pairs)}
        last(k) == CHOOSE i \in 1..Len(pairs) :
                      /\ KeyOf(pairs[i]) = k
                      /\ \A j \in (i + 1)..Len(pairs) : KeyOf(pairs[j]) # k
    IN  [k \in keys |-> ValueOf(pairs[last(k)])]

\* dict.pop('hash', None) / dict.get(key, default)
Without(params, key) == [k \in DOMAIN params \ {key} |-> params[k]]

\* Order of str keys. Key tokens begin with different characters, so comparing
\* token by token is comparing the strings character by character.
TokenRank(tok) ==
    CASE tok = "auth_date" -> 1
      [] tok = "hash"      -> 2
      [] tok = "query_id"  -> 3
      [] tok = "user"      -> 4
      [] OTHER             -> 5

RECURSIVE StrLess(_, _)
StrLess(a, b) ==
    IF Len(a) = 0 THEN Len(b) > 0
    ELSE IF Len(b) = 0 THEN FALSE
    ELSE IF a[1] = b[1] THEN StrLess(Tail(a), Tail(b))
    ELSE TokenRank(a[1]) < TokenRank(b[1])

\* sorted(params.items()): the keys in increasing order
RECURSIVE SortedKeys(_)
SortedKeys(keys) ==
    IF keys = {} THEN <<>>
    ELSE LET m == CHOOSE k \in keys : \A o \in keys \ {k} : StrLess(k, o)
         IN  <<m>> \o SortedKeys(keys \ {m})

\* lines 224-226
DataCheckString(params) ==
    LET ks == SortedKeys(DOMAIN params)
    IN  Join([i \in 1..Len(ks) |-> ks[i] \o <<"=">> \o params[ks[i]]], "\n")

\* hmac.new(key, msg, sha256) as an ideal keyed hash: the digest is the term
\* hmac(key, msg), so two digests are equal exactly when keys and messages are.
Hmac(key, msg) == <<"hmac(">> \o key \o <<",">> \o msg \o <<")">>

\* lines 229-239
CalculatedHash(params, bot_token) ==
    Hmac(Hmac(<<"WebAppData">>, bot_token), DataCheckString(params))

\* int(str) on the decimal numerals of the model; any other str raises
IsNumeral(v) ==
    v \in {<<"1728000000">>, <<"1727913600">>, <<"1727913599">>, <<"0">>}

IntOf(v) ==
    CASE v = <<"1728000000">> -> 1728000000
      [] v = <<"1727913600">> -> 1727913600
      [] v = <<"1727913599">> -> 1727913599
      [] v = <<"0">>          -> 0

\* TelegramUser(**json.loads(str)) on the user documents of the model; any
\* other str raises (not JSON, or no id / first_name)
UserAlice == "{\"id\":42,\"first_name\":\"A\"}"
UserBob == "{\"id\":7,\"first_name\":\"B\",\"username\":\"bob\"}"

IsUserJson(v) == v \in {<<UserAlice>>, <<UserBob>>}

UserOf(v) ==
    CASE v = <<UserAlice>> -> [id |-> 42]
      [] v = <<UserBob>>   -> [id |-> 7]

\* str(user.id)
StrOfId(id) ==
    CASE id = 42 -> "42"
      [] id = 7  -> "7"
      [] OTHER   -> "?"

Get(params, key, default) ==
    IF key \in DOMAIN params THEN params[key] ELSE default

\* line 212: `not received_hash` (no hash key, or an empty value)
HashMissing(parsed) ==
    ~(<<"hash">> \in DOMAIN parsed) \/ parsed[<<"hash">>] = <<>>

\* the age test of line 219 with >= for >
IsExpiredOffByOne(t, auth_date) == t - auth_date >= MAX_AUTH_AGE

\* line 219
IsExpired(t, auth_date) == t - auth_date > MAX_AUTH_AGE

\* line 241
HashMatches(calculated_hash, received_hash) == calculated_hash = received_hash

\* validate_telegram_init_data, lines 196-251. The result is the value
\* returned (a TelegramUser or None) with the event logged on the way.
validate_telegram_init_data(init_data, bot_token, t) ==
    LET parsed == ParseParams(init_data)
        params == Without(parsed, <<"hash">>)
        authv  == Get(params, <<"auth_date">>, <<"0">>)
        userv  == Get(params, <<"user">>, <<"{}">>)
    IN  IF HashMissing(parsed)
        THEN [user |-> NoUser, log |-> "init_data_missing_hash"]
        ELSE IF ~IsNumeral(authv)
        THEN [user |-> NoUser, log |-> "init_data_validation_error"]
        ELSE IF IsExpired(t, IntOf(authv))
        THEN [user |-> NoUser, log |-> "init_data_expired"]
        ELSE IF ~HashMatches(CalculatedHash(params, bot_token),
                             parsed[<<"hash">>])
        THEN [user |-> NoUser, log |-> "init_data_hash_mismatch"]
        ELSE IF ~IsUserJson(userv)
        THEN [user |-> NoUser, log |-> "init_data_validation_error"]
        ELSE [user |-> Some(UserOf(userv)), log |-> "none"]

-----------------------------------------------------------------------------
(* OrderItem / OrderCreate, lines 54-84 *)

\* line 57: qty: int = Field(..., ge=1, le=100)
QtyValid(qty) == qty >= QTY_MIN /\ qty <= QTY_MAX

\* lines 58-63: price: float = Field(..., ge=0), then validate_price
PriceValid(price) == price >= 0 /\ ~(price < 0 \/ price > PRICE_MAX_CENTS)

\* line 64: round(v, 2); an amount of whole hundredths is its own rounding
RoundPrice(price) == price

ItemValid(item) == QtyValid(item.qty) /\ PriceValid(item.price)

\* lines 72-78: validate_items
ItemCountValid(items) == ~(Len(items) = 0) /\ ~(Len(items) > MAX_ITEMS)

\* line 68: total: float = Field(..., ge=0, le=10000)
TotalInRange(total) == total >= 0 /\ total <= TOTAL_MAX_CENTS

\* lines 70, 82: max_length=500 and validate_notes, both on the str as sent
NotesValid(notes) == ~(notes.some /\ Len(notes.val) > NOTES_MAX)

\* the characters str.strip() removes, of those a note of the model is made of
IsSpace(c) == c \in {" ", "\t", "\n"}

\* str.strip()
Strip(v) ==
    IF \A i \in 1..Len(v) : IsSpace(v[i])
    THEN <<>>
    ELSE LET lo == CHOOSE i \in 1..Len(v) :
                      ~IsSpace(v[i]) /\ \A j \in 1..(i - 1) : IsSpace(v[j])
             hi == CHOOSE i \in 1..Len(v) :
                      ~IsSpace(v[i]) /\ \A j \in (i + 1)..Len(v) : IsSpace(v[j])
         IN  SubSeq(v, lo, hi)

\* line 84: return v.strip() if v else None
CleanNotes(notes) ==
    IF notes.some /\ Len(notes.val) > 0 THEN Some(Strip(notes.val)) ELSE NoNote

\* the request body parses into an OrderCreate (else FastAPI answers 422)
OrderCreateValid(body) ==
    /\ \A i \in 1..Len(body.items) : ItemValid(body.items[i])
    /\ ItemCountValid(body.items)
    /\ TotalInRange(body.total)
    /\ NotesValid(body.notes)

\* the OrderCreate built from a valid body
OrderCreate(body) ==
    [items     |-> [i \in 1..Len(body.items) |->
                      [qty   |-> body.items[i].qty,
                       price |-> RoundPrice(body.items[i].price)]],
     total     |-> body.total,
     init_data |-> body.init_data,
     notes     |-> CleanNotes(body.notes)]

\* line 309: sum(item.price * item.qty for item in order.items)
RECURSIVE CalculatedTotal(_)
CalculatedTotal(items) ==
    IF Len(items) = 0 THEN 0
    ELSE items[1].price * items[1].qty + CalculatedTotal(Tail(items))

\* The binary64 subtraction of two amounts exactly one hundredth apart lands
\* just above or just below the binary64 0.01. These are the pairs
\* <<calculated, declared>> of the model whose difference lands above it
\* (1.0 - 1.01, 1.0 - 0.99, 2.0 - 1.99); the other pairs land below.
RoundsAboveCent == {<<100, 101>>, <<100, 99>>, <<200, 199>>}

\* the test of line 310 with a tolerance of 1.00
TotalMismatchLoose(calculated, declared) ==
    Abs(calculated - declared) > 100 * TOLERANCE_CENTS

\* line 310: abs(calculated_total - order.total) > 0.01, in binary64
TotalMismatch(calculated, declared) ==
    \/ Abs(calculated - declared) > TOLERANCE_CENTS
    \/ /\ Abs(calculated - declared) = TOLERANCE_CENTS
       /\ <<calculated, declared>> \in RoundsAboveCent

\* lines 323-330: the row given to db.add
OrderRow(order, u) ==
    [telegram_user_id |-> StrOfId(u.id),
     items            |-> order.items,
     total            |-> order.total,
     notes            |-> order.notes,
     status           |-> "received"]

\* the handler has built no row (yet)
NoOrder ==
    [some |-> FALSE,
     val  |-> [telegram_user_id |-> <<>>, items |-> <<>>, total |-> 0,
               notes |-> NoNote, status |-> ""]]

-----------------------------------------------------------------------------
(* Requests *)

Slots == {"c1", "c2"}

BOT_TOKEN == <<"bot-token">>     \* settings.telegram_token

Field(k, v) == <<k, "=">> \o v

\* the signature the platform computes over a mapping of fields
PlatformHash(fields, token) ==
    Hmac(Hmac(<<"WebAppData">>, token), DataCheckString(fields))

\* a raw payload: the segments, then the hash field
Payload(segments, hash) == Join(Append(segments, Field("hash", hash)), "&")

FreshDate == <<"1728000000">>    \* StartTime
DayOldDate == <<"1727913600">>   \* StartTime - 86400
StaleDate == <<"1727913599">>    \* StartTime - 86401

\* the mapping {user, auth_date}
UserFields(u, d) ==
    [k \in {<<"user">>, <<"auth_date">>} |-> IF k = <<"user">> THEN u ELSE d]

AliceHash == PlatformHash(UserFields(<<UserAlice>>, FreshDate), BOT_TOKEN)

GoodInitData ==
    Payload(<<Field("user", <<UserAlice>>), Field("auth_date", FreshDate)>>,
            AliceHash)

DayOldInitData ==
    Payload(<<Field("auth_date", DayOldDate), Field("user", <<UserBob>>)>>,
            PlatformHash(UserFields(<<UserBob>>, DayOldDate), BOT_TOKEN))

ForgedInitData ==
    Payload(<<Field("user", <<UserAlice>>), Field("auth_date", FreshDate)>>,
            PlatformHash(UserFields(<<UserAlice>>, FreshDate), <<"guess">>))

Item(q, p) == [qty |-> q, price |-> p]

Body(items, total, init_data, notes) ==
    [items |-> items, total |-> total, init_data |-> init_data, notes |-> notes]

NoBody == Body(<<>>, 0, <<>>, NoNote)

\* a request: the client address, the route and, for POST /api/order, the body
Request(ip, route, body) == [ip |-> ip, route |-> route, body |-> body]

NoRequest == Request("", "", NoBody)

-----------------------------------------------------------------------------
(* The coroutine of one request *)

\* rate_limit, lines 172-194, up to `await call_next(request)`
RateLimit(c, r) ==
    /\ pc[c] = "idle"
    /\ LET swept == Sweep(request_counts, now)
       IN  /\ request_counts' = GateUpdate(swept, r.ip, now)
           /\ IF GateAdmits(swept, r.ip)
              THEN /\ pc' = [pc EXCEPT ![c] = "call_next"]
                   /\ resp' = [resp EXCEPT ![c] = 0]
              ELSE /\ pc' = [pc EXCEPT ![c] = "done"]
                   /\ resp' = [resp EXCEPT ![c] = 429]
    /\ req' = [req EXCEPT ![c] = r]
    /\ checks' = [checks EXCEPT ![c] = <<"rate_limit">>]
    /\ user' = [user EXCEPT ![c] = NoUser]
    /\ vlog' = [vlog EXCEPT ![c] = "none"]
    /\ evicted' = DOMAIN request_counts \ SweepKeeps(request_counts, now)
    /\ arrivals' =
         [ip \in DOMAIN request_counts' |->
            IF ip # r.ip THEN arrivals[ip]
            ELSE LET old == IF ip \in DOMAIN arrivals \ evicted'
                            THEN arrivals[ip]
                            ELSE [sent |-> 0, admitted |-> 0]
                     got == IF pc'[c] = "call_next" THEN 1 ELSE 0
                 IN  [sent |-> old.sent + 1, admitted |-> old.admitted + got]]
    /\ db_order' = [db_order EXCEPT ![c] = NoOrder]
    /\ UNCHANGED <<now, orders, committed>>

\* call_next for a route other than POST /api/order (GET /menu.json, ...)
ServeOther(c) ==
    /\ pc[c] = "call_next"
    /\ req[c].route # "order"
    /\ pc' = [pc EXCEPT ![c] = "done"]
    /\ resp' = [resp EXCEPT ![c] = 200]
    /\ UNCHANGED <<now, request_counts, req, user, checks, orders, vlog,
                   evicted, arrivals, db_order, committed>>

\* call_next for POST /api/order: the body is parsed into the `order`
\* parameter of create_order (line 291) before the handler is entered
ValidateBody(c) ==
    /\ pc[c] = "call_next"
    /\ req[c].route = "order"
    /\ checks' = [checks EXCEPT ![c] = Append(@, "order_fields")]
    /\ IF OrderCreateValid(req[c].body)
       THEN /\ pc' = [pc EXCEPT ![c] = "handler"]
            /\ resp' = resp
       ELSE /\ pc' = [pc EXCEPT ![c] = "done"]
            /\ resp' = [resp EXCEPT ![c] = 422]
    /\ UNCHANGED <<now, request_counts, req, user, orders, vlog,
                   evicted, arrivals, db_order, committed>>

\* create_order with the total cross-check before the authentication
CreateOrderTotalFirst(c) ==
    /\ pc[c] = "handler"
    /\ LET order == OrderCreate(req[c].body)
           v     == validate_telegram_init_data(order.init_data, BOT_TOKEN, now)
       IN  /\ vlog' = [vlog EXCEPT ![c] = v.log]
           /\ user' = [user EXCEPT ![c] = v.user]
           /\ IF TotalMismatch(CalculatedTotal(order.items), order.total)
              THEN /\ resp' = [resp EXCEPT ![c] = 400]
                   /\ pc' = [pc EXCEPT ![c] = "done"]
                   /\ checks' = [checks EXCEPT ![c] =
                                    @ \o <<"init_data", "total_match">>]
                   /\ UNCHANGED <<orders, db_order>>
              ELSE IF ~v.user.some
              THEN /\ resp' = [resp EXCEPT ![c] = 401]
                   /\ pc' = [pc EXCEPT ![c] = "done"]
                   /\ checks' = [checks EXCEPT ![c] = Append(@, "init_data")]
                   /\ UNCHANGED <<orders, db_order>>
              ELSE /\ resp' = resp
                   /\ pc' = [pc EXCEPT ![c] = "commit"]
                   /\ checks' = [checks EXCEPT ![c] =
                                    @ \o <<"init_data", "total_match">>]
                   /\ db_order' = [db_order EXCEPT ![c] =
                                      Some(OrderRow(order, v.user.val))]
                   /\ orders' = Append(orders, OrderRow(order, v.user.val))
    /\ UNCHANGED <<now, request_counts, req, evicted, arrivals, committed>>

\* create_order, lines 299-332, up to `await db.commit()`: the checks of the
\* handler and, when they pass, the row built and handed to db.add
CreateOrder(c) ==
    /\ pc[c] = "handler"
    /\ LET order == OrderCreate(req[c].body)
           v     == validate_telegram_init_data(order.init_data, BOT_TOKEN, now)
       IN  /\ vlog' = [vlog EXCEPT ![c] = v.log]
           /\ user' = [user EXCEPT ![c] = v.user]
           /\ IF ~v.user.some
              THEN /\ resp' = [resp EXCEPT ![c] = 401]
                   /\ pc' = [pc EXCEPT ![c] = "done"]
                   /\ checks' = [checks EXCEPT ![c] = Append(@, "init_data")]
                   /\ UNCHANGED <<orders, db_order>>
              ELSE IF TotalMismatch(CalculatedTotal(order.items), order.total)
              THEN /\ resp' = [resp EXCEPT ![c] = 400]
                   /\ pc' = [pc EXCEPT ![c] = "done"]
                   /\ checks' = [checks EXCEPT ![c] =
                                    @ \o <<"init_data", "total_match">>]
                   /\ UNCHANGED <<orders, db_order>>
              ELSE /\ resp' = resp
                   /\ pc' = [pc EXCEPT ![c] = "commit"]
                   /\ checks' = [checks EXCEPT ![c] =
                                    @ \o <<"init_data", "total_match">>]
                   /\ db_order' = [db_order EXCEPT ![c] =
                                      Some(OrderRow(order, v.user.val))]
                   /\ orders' = Append(orders, OrderRow(order, v.user.val))
    /\ UNCHANGED <<now, request_counts, req, evicted, arrivals, committed>>

\* line 333, `await db.commit()` returns or raises: the row enters the table
\* and the handler goes on to the refresh, or the exception reaches
\* global_exception_handler (lines 431-437), which answers 500
CommitOrder(c) ==
    /\ pc[c] = "commit"
    /\ \E raises \in BOOLEAN :
          IF raises
          THEN /\ pc' = [pc EXCEPT ![c] = "done"]
               /\ resp' = [resp EXCEPT ![c] = 500]
               /\ committed' = committed
          ELSE /\ pc' = [pc EXCEPT ![c] = "refresh"]
               /\ resp' = resp
               /\ committed' = Append(committed, db_order[c].val)
    /\ UNCHANGED <<now, request_counts, req, user, checks, orders, vlog,
                   evicted, arrivals, db_order>>

\* lines 334-352, `await db.refresh(db_order)` returns or raises: the handler
\* returns the OrderResponse (200), or global_exception_handler answers 500
RefreshOrder(c) ==
    /\ pc[c] = "refresh"
    /\ \E raises \in BOOLEAN :
          resp' = [resp EXCEPT ![c] = IF raises THEN 500 ELSE 200]
    /\ pc' = [pc EXCEPT ![c] = "done"]
    /\ UNCHANGED <<now, request_counts, req, user, checks, orders, vlog,
                   evicted, arrivals, db_order, committed>>

\* the response has been sent; the slot is free for the next request
Respond(c) ==
    /\ pc[c] = "done"
    /\ pc' = [pc EXCEPT ![c] = "idle"]
    /\ req' = [req EXCEPT ![c] = NoRequest]
    /\ resp' = [resp EXCEPT ![c] = 0]
    /\ user' = [user EXCEPT ![c] = NoUser]
    /\ checks' = [checks EXCEPT ![c] = <<>>]
    /\ vlog' = [vlog EXCEPT ![c] = "none"]
    /\ db_order' = [db_order EXCEPT ![c] = NoOrder]
    /\ UNCHANGED <<now, request_counts, orders, evicted, arrivals, committed>>

\* the clock advances
Tick(d) ==
    /\ now + d <= StartTime + MaxElapsed
    /\ now' = now + d
    /\ UNCHANGED <<request_counts, pc, req, resp, user, checks, orders, vlog,
                   evicted, arrivals, db_order, committed>>

Init ==
    /\ now = StartTime
    /\ request_counts = << >>
    /\ pc = [c \in Slots |-> "idle"]
    /\ req = [c \in Slots |-> NoRequest]
    /\ resp = [c \in Slots |-> 0]
    /\ user = [c \in Slots |-> NoUser]
    /\ checks = [c \in Slots |-> <<>>]
    /\ orders = <<>>
    /\ vlog = [c \in Slots |-> "none"]
    /\ evicted = {}
    /\ arrivals = << >>
    /\ db_order = [c \in Slots |-> NoOrder]
    /\ committed = <<>>

-----------------------------------------------------------------------------
(* The rate gate under requests from two addresses *)

GateClients == {"10.0.0.1", "10.0.0.2"}
GateTicks == {60, 61}

\* the requests ip has sent since its counter was created
Arrivals(ip) == IF ip \in DOMAIN arrivals THEN arrivals[ip].sent ELSE 0

Arrive ==
    \E c \in Slots, ip \in GateClients :
        /\ Arrivals(ip) < MaxArrivals
        /\ RateLimit(c, Request(ip, "menu", NoBody))

Serve == \E c \in Slots : ServeOther(c)

Finish == \E c \in Slots : Respond(c)

GateClock == \E d \in GateTicks : Tick(d)

NextGate == Arrive \/ Serve \/ Finish \/ GateClock

SpecGate == Init /\ [][NextGate]_vars

-----------------------------------------------------------------------------
(* Properties of the rate gate *)

\* slot c runs the middleware in this step
GateStep(c) == pc[c] = "idle" /\ pc'[c] # "idle"

\* ip has a counter whose window is active
InWindow(ip) ==
    ip \in DOMAIN request_counts /\ now <= request_counts[ip].reset_time

C3_Step ==
    \A c \in Slots :
        GateStep(c) /\ InWindow(req'[c].ip) =>
            LET ip == req'[c].ip
                e  == request_counts[ip]
            IN  /\ (pc'[c] = "call_next") <=> (e.count < RATE_LIMIT)
                /\ e.count < RATE_LIMIT =>
                      request_counts'[ip] = [e EXCEPT !.count = @ + 1]
                /\ ~(e.count < RATE_LIMIT) =>
                      resp'[c] = 429 /\ request_counts'[ip] = e

\* C3: a request of a client whose counter is inside its window is admitted,
\* and counted, exactly when the count is below 30; otherwise it is answered
\* 429 and the counter is left as it was; no count ever exceeds 30.
C3_WindowLimit ==
    /\ [](\A ip \in DOMAIN request_counts :
             request_counts[ip].count <= RATE_LIMIT)
    /\ [][C3_Step]_vars

\* the 31st request of a window has been answered 429
C3_Witness ==
    \E c \in Slots :
        /\ pc[c] = "done" /\ resp[c] = 429
        /\ InWindow(req[c].ip)
        /\ request_counts[req[c].ip].count = RATE_LIMIT
        /\ arrivals[req[c].ip].sent = RATE_LIMIT + 1

C4_Step ==
    \A c \in Slots :
        LET ip == req'[c].ip
        IN  /\ GateStep(c)
            /\ ip \in DOMAIN request_counts
            /\ now > request_counts[ip].reset_time
            => /\ pc'[c] = "call_next"
               /\ request_counts'[ip] = NewEntry(now)

\* C4: the first request after a counter's reset time is admitted whatever
\* the count was, and leaves the counter at count 1 with a reset time 60
\* seconds after that request.
C4_ResetAfterWindow == [][C4_Step]_vars

C9_Step ==
    /\ \A ip \in DOMAIN request_counts \ DOMAIN request_counts' :
          now - request_counts[ip].reset_time > SWEEP_AGE
    /\ \A ip \in DOMAIN request_counts :
          now <= request_counts[ip].reset_time =>
             /\ ip \in DOMAIN request_counts'
             /\ request_counts'[ip].reset_time = request_counts[ip].reset_time
             /\ request_counts'[ip].count >= request_counts[ip].count
    /\ \A c \in Slots :
          /\ GateStep(c)
          /\ InWindow(req'[c].ip)
          /\ request_counts[req'[c].ip].count >= RATE_LIMIT
          => resp'[c] = 429

\* C9: a step deletes only counters whose reset time is more than 60 seconds
\* past; a counter inside its window stays, with its reset time and a count
\* that does not go down, so a client at the limit inside its window is
\* still refused whoever's request ran the sweep.
C9_EvictionSafe == [][C9_Step]_vars

\* a sweep has deleted a counter while another client, at the limit inside
\* its window, was refused
C9_Witness ==
    /\ evicted # {}
    /\ \E c \in Slots :
          /\ pc[c] = "done" /\ resp[c] = 429
          /\ InWindow(req[c].ip)
          /\ request_counts[req[c].ip].count = RATE_LIMIT
          /\ ~(req[c].ip \in evicted)

\* C10: whatever the interleaving of the requests in flight, a counter holds
\* min(requests sent since it was created, 30), and that many were admitted:
\* no increment is lost and none goes past 30.
C10_NoLostIncrement ==
    \A ip \in DOMAIN request_counts :
        /\ request_counts[ip].count = Min(arrivals[ip].sent, RATE_LIMIT)
        /\ arrivals[ip].admitted = Min(arrivals[ip].sent, RATE_LIMIT)

\* two requests of one client in flight at once: the 30th admitted and still
\* being served, the 31st refused
C10_Witness ==
    \E c, d \in Slots :
        /\ c # d /\ req[c].ip = req[d].ip
        /\ pc[c] = "call_next"
        /\ pc[d] = "done" /\ resp[d] = 429
        /\ request_counts[req[c].ip].count = RATE_LIMIT
        /\ arrivals[req[c].ip].sent = RATE_LIMIT + 1

-----------------------------------------------------------------------------
(* validate_telegram_init_data under a client's payload and a copy of it *)
(* with one field changed on the way                                      *)

ValidItems == <<Item(2, 350), Item(1, 400)>>

OrderRequest(ip, init_data) ==
    Request(ip, "order", Body(ValidItems, 1100, init_data, NoNote))

AliceUser == Field("user", <<UserAlice>>)
BobUser == Field("user", <<UserBob>>)
Dated(d) == Field("auth_date", d)

\* the raw payloads a client sends
ClientPayloads ==
    { GoodInitData, DayOldInitData, ForgedInitData,
      \* signed a second too long ago
      Payload(<<AliceUser, Dated(StaleDate)>>,
              PlatformHash(UserFields(<<UserAlice>>, StaleDate), BOT_TOKEN)),
      \* forged and stale
      Payload(<<AliceUser, Dated(StaleDate)>>,
              PlatformHash(UserFields(<<UserAlice>>, StaleDate), <<"guess">>)),
      \* a repeated key, signed for its last value; signed for its first
      Payload(<<BobUser, AliceUser, Dated(FreshDate)>>, AliceHash),
      Payload(<<AliceUser, BobUser, Dated(FreshDate)>>, AliceHash),
      \* segments without "=", one of them empty
      Payload(<<<<"junk">>, AliceUser, <<>>, Dated(FreshDate)>>, AliceHash),
      \* the hash first, a further field
      Join(<<Field("hash",
                   PlatformHash([k \in {<<"user">>, <<"auth_date">>,
                                        <<"query_id">>} |->
                                   CASE k = <<"user">> -> <<UserBob>>
                                     [] k = <<"auth_date">> -> FreshDate
                                     [] OTHER -> <<"q1">>], BOT_TOKEN)),
             BobUser, Field("query_id", <<"q1">>), Dated(FreshDate)>>, "&"),
      \* no hash, stale; no hash, fresh; an empty hash; nothing at all
      Join(<<AliceUser, Dated(StaleDate)>>, "&"),
      Join(<<AliceUser, Dated(FreshDate)>>, "&"),
      Payload(<<AliceUser, Dated(FreshDate)>>, <<>>),
      <<>>,
      \* auth_date not a number; no auth_date; no user; user not a record
      Payload(<<AliceUser, Dated(<<"soon">>)>>,
              PlatformHash(UserFields(<<UserAlice>>, <<"soon">>), BOT_TOKEN)),
      Payload(<<AliceUser>>,
              PlatformHash([k \in {<<"user">>} |-> <<UserAlice>>], BOT_TOKEN)),
      Payload(<<Dated(FreshDate)>>,
              PlatformHash([k \in {<<"auth_date">>} |-> FreshDate], BOT_TOKEN)),
      Payload(<<Field("user", <<"{}">>), Dated(FreshDate)>>,
              PlatformHash(UserFields(<<"{}">>, FreshDate), BOT_TOKEN)) }

\* the values a field is changed to
TamperValues ==
    {<<UserAlice>>, <<UserBob>>, FreshDate, DayOldDate, StaleDate, <<"x", "=", "y">>}

\* the segments of p that are fields other than the hash
FieldIndexes(p) ==
    LET segs == Split(p, "&")
    IN  {i \in 1..Len(segs) : HasPair(segs[i]) /\ KeyOf(segs[i]) # <<"hash">>}

\* p with the value of its i-th segment changed to v
TamperAt(p, i, v) ==
    LET segs == Split(p, "&")
    IN  Join([segs EXCEPT ![i] = KeyOf(segs[i]) \o <<"=">> \o v], "&")

Tampers(p) ==
    {TamperAt(p, ch[1], ch[2]) :
        ch \in {x \in FieldIndexes(p) \X TamperValues :
                  x[2] # ValueOf(Split(p, "&")[x[1]])}}

VerifyTicks == {60}

SendOriginal ==
    /\ req["c1"] = NoRequest
    /\ \E p \in ClientPayloads : RateLimit("c1", OrderRequest("10.0.0.1", p))

SendTampered ==
    /\ req["c1"] # NoRequest
    /\ req["c2"] = NoRequest
    /\ \E q \in Tampers(req["c1"].body.init_data) :
          RateLimit("c2", OrderRequest("10.0.0.1", q))

ParseOrder == \E c \in Slots : ValidateBody(c)

Handle == \E c \in Slots : CreateOrder(c)

Commit == \E c \in Slots : CommitOrder(c)

Refresh == \E c \in Slots : RefreshOrder(c)

VerifyClock == \E d \in VerifyTicks : Tick(d)

NextVerify ==
    \/ SendOriginal \/ SendTampered \/ ParseOrder \/ Handle \/ Commit \/ Refresh
    \/ VerifyClock

SpecVerify == Init /\ [][NextVerify]_vars

-----------------------------------------------------------------------------
(* Properties of validate_telegram_init_data *)

InitDataOf(c) == req[c].body.init_data

\* create_order has run validate_telegram_init_data for the request of c
Handled(c) == pc[c] # "handler" /\ Contains(checks[c], "init_data")

\* c runs create_order in this step, to its answer or to its first await
HandlerStep(c) == pc[c] = "handler" /\ pc'[c] # "handler"

\* the answers by which a stage of the pipeline refuses a request
Refusals == {400, 401, 422, 429}

\* the order of c passed every check of create_order: its row was built
Accepted(c) == db_order[c].some

SegmentsOf(p) == Split(p, "&")

\* the fields of p named k, by position
FieldsNamed(p, k) ==
    LET segs == SegmentsOf(p)
    IN  {i \in 1..Len(segs) : HasPair(segs[i]) /\ KeyOf(segs[i]) = k}

Last(S) == CHOOSE i \in S : \A j \in S : j <= i

\* the value p gives k: that of the last field named k
ValueNamed(p, k) == ValueOf(SegmentsOf(p)[Last(FieldsNamed(p, k))])

\* the non-hash fields of p, the last occurrence of each
EffectiveFields(p) ==
    LET segs == SegmentsOf(p)
        idx  == {i \in 1..Len(segs) :
                    HasPair(segs[i]) /\ KeyOf(segs[i]) # <<"hash">>}
        at(k) == Last({i \in idx : KeyOf(segs[i]) = k})
    IN  [k \in {KeyOf(segs[i]) : i \in idx} |-> ValueOf(segs[at(k)])]

\* a later field of p has the key of field i
Shadowed(p, i) ==
    LET segs == SegmentsOf(p)
    IN  \E j \in FieldIndexes(p) : j > i /\ KeyOf(segs[j]) = KeyOf(segs[i])

\* the fields of p whose value alone q changes
TamperedAt(p, q) ==
    LET ps == SegmentsOf(p)
        qs == SegmentsOf(q)
    IN  {i \in FieldIndexes(p) :
            /\ Len(qs) = Len(ps)
            /\ HasPair(qs[i])
            /\ KeyOf(qs[i]) = KeyOf(ps[i])
            /\ ValueOf(qs[i]) # ValueOf(ps[i])
            /\ \A j \in 1..Len(ps) : j # i => qs[j] = ps[j]}

BothHandled == Handled("c1") /\ Handled("c2")

\* C5 as stated: once a payload has verified, a copy with the value of any
\* one of its fields changed, the hash left as it was, does not verify.
C5_AnyFieldTamperFails ==
    /\ BothHandled
    /\ user["c1"].some
    /\ TamperedAt(InitDataOf("c1"), InitDataOf("c2")) # {}
    => ~user["c2"].some

\* C5 amended: a copy with the value of a field changed does not verify,
\* provided no later field of the payload repeats that field's key; and a
\* user is returned only when the hash sent is the keyed hash of the
\* canonical string of the non-hash fields, the last occurrence of each key.
C5_EffectiveFieldTamperFails ==
    /\ /\ BothHandled
       /\ user["c1"].some
       /\ \E i \in TamperedAt(InitDataOf("c1"), InitDataOf("c2")) :
             ~Shadowed(InitDataOf("c1"), i)
       => ~user["c2"].some
    /\ \A c \in Slots :
          Handled(c) /\ user[c].some =>
             /\ FieldsNamed(InitDataOf(c), <<"hash">>) # {}
             /\ ValueNamed(InitDataOf(c), <<"hash">>)
                   = PlatformHash(EffectiveFields(InitDataOf(c)), BOT_TOKEN)

\* a payload with a repeated key has verified, and its copy with the key's
\* last value changed has been refused
C5_Witness ==
    /\ BothHandled
    /\ user["c1"].some
    /\ ~user["c2"].some
    /\ \E i \in TamperedAt(InitDataOf("c1"), InitDataOf("c2")) :
          /\ ~Shadowed(InitDataOf("c1"), i)
          /\ \E j \in FieldIndexes(InitDataOf("c1")) :
                Shadowed(InitDataOf("c1"), j)

\* the auth_date the payload carries (0 when it carries none)
AuthDateOf(p) ==
    IF <<"auth_date">> \in DOMAIN EffectiveFields(p)
    THEN EffectiveFields(p)[<<"auth_date">>]
    ELSE <<"0">>

\* the payload reaches the verifier: it has a hash and an integer auth_date
Verifiable(p) ==
    /\ FieldsNamed(p, <<"hash">>) # {}
    /\ ValueNamed(p, <<"hash">>) # <<>>
    /\ IsNumeral(AuthDateOf(p))

C6_ExpiryStep ==
    \A c \in Slots :
        HandlerStep(c) /\ Verifiable(InitDataOf(c)) =>
            /\ (vlog'[c] = "init_data_expired")
                  <=> (now - IntOf(AuthDateOf(InitDataOf(c))) > MAX_AUTH_AGE)
            /\ vlog'[c] = "init_data_expired" =>
                  ~user'[c].some /\ resp'[c] = 401

\* what the caller of validate_telegram_init_data, and the client, get
Outcome(c) == <<user[c], resp[c]>>

\* C6 as stated: a payload is refused as expired exactly when
\* now - auth_date > 86400, whatever its signature, and that outcome differs
\* from the outcome of a signature that does not match.
C6_ExpiredDistinct ==
    /\ [][C6_ExpiryStep]_vars
    /\ [](\A c, d \in Slots :
             /\ Handled(c) /\ vlog[c] = "init_data_expired"
             /\ Handled(d) /\ vlog[d] = "init_data_hash_mismatch"
             => Outcome(c) # Outcome(d))

\* C6 amended: a payload is refused as expired exactly when
\* now - auth_date > 86400, whatever its signature; the expired refusal and
\* the refusal of a signature that does not match are the same outcome (None,
\* answered 401) and differ only in the event logged.
C6_ExpiredLoggedOnly ==
    /\ [][C6_ExpiryStep]_vars
    /\ [](\A c \in Slots :
             /\ Handled(c)
             /\ vlog[c] \in {"init_data_expired", "init_data_hash_mismatch"}
             => Outcome(c) = <<NoUser, 401>>)

\* a payload whose hash matches has been refused as expired, and one whose
\* hash does not match as a mismatch
C6_Witness ==
    \E c, d \in Slots :
        /\ Handled(c) /\ vlog[c] = "init_data_expired"
        /\ ValueNamed(InitDataOf(c), <<"hash">>)
              = PlatformHash(EffectiveFields(InitDataOf(c)), BOT_TOKEN)
        /\ Handled(d) /\ vlog[d] = "init_data_hash_mismatch"

\* p has a segment without "="
HasBareSegment(p) ==
    \E i \in 1..Len(SegmentsOf(p)) : ~HasPair(SegmentsOf(p)[i])

\* p without its segments that have no "="
WithoutBareSegments(p) == Join(SelectSeq(SegmentsOf(p), HasPair), "&")

\* C8 as stated: no user is returned for a payload without a hash field,
\* with a segment that has no "=", or empty.
C8_BareSegmentRejected ==
    \A c \in Slots :
        /\ Handled(c)
        /\ \/ FieldsNamed(InitDataOf(c), <<"hash">>) = {}
           \/ HasBareSegment(InitDataOf(c))
           \/ InitDataOf(c) = <<>>
        => ~user[c].some

C8_SkipStep ==
    \A c \in Slots :
        HandlerStep(c) =>
            LET v == validate_telegram_init_data(
                        WithoutBareSegments(InitDataOf(c)), BOT_TOKEN, now)
            IN  user'[c] = v.user /\ vlog'[c] = v.log

\* C8 amended: no user is returned for a payload without a hash field, with
\* an empty hash or empty; a segment that has no "=" is skipped, the payload
\* being verified as it is without such segments.
C8_BareSegmentSkipped ==
    /\ [](\A c \in Slots :
             /\ Handled(c)
             /\ \/ FieldsNamed(InitDataOf(c), <<"hash">>) = {}
                \/ ValueNamed(InitDataOf(c), <<"hash">>) = <<>>
                \/ InitDataOf(c) = <<>>
             => ~user[c].some /\ vlog[c] = "init_data_missing_hash")
    /\ [][C8_SkipStep]_vars

\* a payload with a segment that has no "=" has verified
C8_Witness ==
    \E c \in Slots :
        Handled(c) /\ HasBareSegment(InitDataOf(c)) /\ user[c].some

-----------------------------------------------------------------------------
(* The whole pipeline under the order requests of one address *)

Notes(n) == Some([i \in 1..n |-> "x"])

PipelineBodies ==
    {Body(o[1], o[2], p, NoNote) :
        o \in {<<ValidItems, 1100>>,             \* a valid order
               <<ValidItems, 1000>>,             \* its total is off
               <<<<Item(0, 350)>>, 350>>},       \* a quantity of 0, total off
        p \in {GoodInitData, ForgedInitData}}

PipelineTicks == {61}

Submit ==
    \E c \in Slots, b \in PipelineBodies :
        /\ Arrivals("10.0.0.1") < MaxArrivals
        /\ Len(orders) < MaxOrders
        /\ RateLimit(c, Request("10.0.0.1", "order", b))

PipelineClock == \E d \in PipelineTicks : Tick(d)

Next ==
    \/ Submit \/ ParseOrder \/ Handle \/ Commit \/ Refresh \/ Finish
    \/ PipelineClock

Spec == Init /\ [][Next]_vars

-----------------------------------------------------------------------------
(* The order validator under one submission with a verified payload *)

Times(n, item) == [i \in 1..n |-> item]

ItemChoices ==
    {Item(q, 100) : q \in {0, 1, 2, 100, 101}}
        \cup {Item(1, p) : p \in {-1, 0, 350, 100000, 100001}}

RECURSIVE ListsOf(_, _)
ListsOf(S, n) ==
    IF n = 0 THEN {<<>>}
    ELSE ListsOf(S, n - 1)
            \cup {Append(l, x) : l \in {m \in ListsOf(S, n - 1) : Len(m) = n - 1},
                                 x \in S}

ItemLists ==
    ListsOf(ItemChoices, MaxListed)
        \cup {Times(MAX_ITEMS, Item(1, 100)), Times(MAX_ITEMS + 1, Item(1, 100))}

Totals ==
    {-1, 0, 99, 100, 101, 199, 200, 201, 450, 451, 5000,
     TOTAL_MAX_CENTS, TOTAL_MAX_CENTS + 1}

\* a note of n characters between lead and trail spaces
Padded(lead, n, trail) ==
    Some([i \in 1..lead |-> " "] \o [i \in 1..n |-> "x"]
            \o [i \in 1..trail |-> " "])

NoteChoices ==
    {NoNote, Notes(0), Notes(3), Notes(NOTES_MAX), Notes(NOTES_MAX + 1),
     Some(<<" ", "\t">>), Padded(1, 3, 2), Padded(1, NOTES_MAX - 1, 0),
     Padded(1, NOTES_MAX, 0), Padded(0, NOTES_MAX, 1),
     Padded(1, NOTES_MAX + 1, 1)}

SubmitOne ==
    /\ req["c1"] = NoRequest
    /\ \E items \in ItemLists, total \in Totals, notes \in NoteChoices :
          RateLimit("c1", Request("10.0.0.1", "order",
                                  Body(items, total, GoodInitData, notes)))

NextOrder == SubmitOne \/ ParseOrder \/ Handle \/ Commit \/ Refresh

SpecOrder == Init /\ [][NextOrder]_vars

-----------------------------------------------------------------------------
(* Properties of the pipeline *)

IsOrder(c) == req[c].route = "order"

\* the hash p carries is not the platform's signature of its fields
BadSignature(p) ==
    \/ FieldsNamed(p, <<"hash">>) = {}
    \/ ValueNamed(p, <<"hash">>)
          # PlatformHash(EffectiveFields(p), BOT_TOKEN)

\* the recomputed total is within a hundredth of the declared one
TotalAgrees(body) ==
    Abs(CalculatedTotal(body.items) - body.total) <= TOLERANCE_CENTS

\* the order passes every check of the validator, the cross-check included
OrderAcceptable(body) == OrderCreateValid(body) /\ TotalAgrees(body)

IsPrefix(s, t) == Len(s) <= Len(t) /\ SubSeq(t, 1, Len(s)) = s

\* C1 as stated: the checks of a request run in the order rate gate,
\* signature, order validator; no check of the validator is evaluated before
\* the payload has verified, and a request with a bad signature and a bad
\* order is answered as unauthenticated.
C1_AuthBeforeValidation ==
    \A c \in Slots :
        /\ IsPrefix(checks[c],
                    <<"rate_limit", "init_data", "order_fields", "total_match">>)
        /\ Contains(checks[c], "order_fields") \/ Contains(checks[c], "total_match")
              => user[c].some
        /\ /\ pc[c] = "done" /\ IsOrder(c) /\ resp[c] # 429
           /\ BadSignature(InitDataOf(c))
           /\ ~OrderAcceptable(req[c].body)
           => resp[c] = 401

\* C1 amended: the checks of a request run in the order rate gate, field
\* checks of the order (item count, quantity, price, range of the total, note
\* length), signature, total cross-check, and the first that fails ends the
\* request; only the total cross-check waits for the payload to verify. A
\* request with a bad signature is answered 422 when a field check fails too,
\* and 401 when the order is well-formed, whatever its total.
C1_FieldChecksThenAuth ==
    \A c \in Slots :
        /\ IsPrefix(checks[c],
                    <<"rate_limit", "order_fields", "init_data", "total_match">>)
        /\ Contains(checks[c], "total_match") => user[c].some
        /\ pc[c] = "done" /\ IsOrder(c) =>
              CASE resp[c] = 429 -> checks[c] = <<"rate_limit">>
                [] resp[c] = 422 ->
                      /\ checks[c] = <<"rate_limit", "order_fields">>
                      /\ ~OrderCreateValid(req[c].body)
                [] resp[c] = 401 ->
                      /\ checks[c] = <<"rate_limit", "order_fields", "init_data">>
                      /\ OrderCreateValid(req[c].body)
                      /\ ~user[c].some
                [] resp[c] = 400 ->
                      /\ Len(checks[c]) = 4
                      /\ OrderCreateValid(req[c].body)
                      /\ user[c].some
                [] resp[c] \in {200, 500} ->
                      /\ Len(checks[c]) = 4
                      /\ OrderCreateValid(req[c].body)
                      /\ user[c].some
                      /\ Accepted(c)
                [] OTHER -> FALSE
        /\ /\ pc[c] = "done" /\ IsOrder(c) /\ resp[c] # 429
           /\ BadSignature(InitDataOf(c))
           => resp[c] = IF OrderCreateValid(req[c].body) THEN 401 ELSE 422

\* a request with a forged signature and a quantity of 0 has been answered
\* 422, and one with a forged signature and a total that is off 401
C1_Witness ==
    \E c, d \in Slots :
        /\ pc[c] = "done" /\ IsOrder(c) /\ resp[c] = 422
        /\ BadSignature(InitDataOf(c))
        /\ pc[d] = "done" /\ IsOrder(d) /\ resp[d] = 401
        /\ BadSignature(InitDataOf(d))
        /\ ~TotalAgrees(req[d].body)

C2_Step ==
    /\ orders' # orders =>
          \E c \in Slots :
              /\ HandlerStep(c)
              /\ checks[c] = <<"rate_limit", "order_fields">>
              /\ pc'[c] = "commit"
              /\ user'[c].some
              /\ user'[c] =
                    validate_telegram_init_data(InitDataOf(c), BOT_TOKEN, now).user
              /\ OrderAcceptable(req[c].body)
              /\ \E row \in {orders'[Len(orders')]} :
                    /\ orders' = Append(orders, row)
                    /\ db_order'[c] = Some(row)
                    /\ row.telegram_user_id = StrOfId(user'[c].val.id)
                    /\ row.items = req[c].body.items
                    /\ row.total = req[c].body.total
    /\ \A c \in Slots :
          pc[c] # "done" /\ pc'[c] = "done" /\ resp'[c] \in Refusals =>
              /\ orders' = orders /\ committed' = committed
              /\ ~Accepted(c)
    /\ committed' # committed =>
          \E c \in Slots :
              /\ pc[c] = "commit" /\ Accepted(c)
              /\ committed' = Append(committed, db_order[c].val)
              /\ \E i \in 1..Len(orders) : orders[i] = db_order[c].val

\* C2: a row is handed to storage only by a request that passed the rate
\* gate, whose init_data verified and whose order passed every check of the
\* validator; the row carries the id of the user verified for that request;
\* a request refused at any stage adds no row. The rows committed to the table
\* are rows that were handed to storage this way.
C2_OnlyValidatedStored == [][C2_Step]_vars

\* a row has been handed to storage and committed for a request answered 200
\* while another request, refused, is in the other slot
C2_Witness ==
    \E c, d \in Slots :
        /\ pc[c] = "done" /\ resp[c] = 200 /\ IsOrder(c)
        /\ Len(orders) > 0
        /\ orders[Len(orders)].telegram_user_id = StrOfId(user[c].val.id)
        /\ committed = <<db_order[c].val>>
        /\ pc[d] = "done" /\ resp[d] \in Refusals

\* every condition the claim lists holds of the submission
ListedConditions(body) ==
    /\ Len(body.items) >= 1 /\ Len(body.items) <= 50
    /\ \A i \in 1..Len(body.items) :
          /\ body.items[i].qty >= 1 /\ body.items[i].qty <= 100
          /\ body.items[i].price >= 0 /\ body.items[i].price <= 100000
    /\ body.total >= 0 /\ body.total <= 1000000
    /\ Abs(CalculatedTotal(body.items) - body.total) <= 1

\* C7, on the submissions that carry no note: a submission with a verified
\* payload is accepted exactly when its item count is in [1,50], every
\* quantity in [1,100], every price in [0,1000], its total in [0,10000] and
\* within 0.01 of the recomputed total.
C7_AcceptedIffListed ==
    \A c \in Slots :
        pc[c] = "done" /\ IsOrder(c) /\ req[c].body.notes = NoNote =>
            (Accepted(c) <=> ListedConditions(req[c].body))

\* the note of a submission after its surrounding whitespace is trimmed
Trimmed(notes) == IF notes.some THEN Strip(notes.val) ELSE <<>>

\* the submission would be accepted if it carried no note
AcceptableButNote(body) == OrderAcceptable([body EXCEPT !.notes = NoNote])

\* the submission in slot c has been answered and only its note can have
\* decided the answer
NoteDecides(c) ==
    /\ pc[c] = "done" /\ IsOrder(c)
    /\ AcceptableButNote(req[c].body)

\* a note of at most 500 characters after trimming is accepted
C11_TrimmedFitsAccepted ==
    \A c \in Slots :
        NoteDecides(c) /\ Len(Trimmed(req[c].body.notes)) <= 500
            => Accepted(c)

\* a note of more than 500 characters after trimming is rejected
C11_TrimmedLongRejected ==
    \A c \in Slots :
        NoteDecides(c) /\ Len(Trimmed(req[c].body.notes)) > 500
            => ~Accepted(c) /\ resp[c] = 422 /\ orders = <<>>

\* the stored note is the trimmed note, and absent when that is empty
C11_StoredTrimmedOrAbsent ==
    \A c \in Slots :
        NoteDecides(c) /\ Accepted(c) =>
            /\ orders = <<db_order[c].val>>
            /\ orders[1].notes =
                  IF Len(Trimmed(req[c].body.notes)) = 0
                  THEN NoNote
                  ELSE Some(Trimmed(req[c].body.notes))

\* C11: the 500-character limit applies to the note after trimming: a note
\* whose trimmed length is at most 500 is accepted even when its untrimmed
\* length exceeds 500, a note whose trimmed length exceeds 500 is rejected,
\* and a note that is empty after trimming (a whitespace-only note included)
\* is stored as absent, not as an empty string.
C11_LimitAfterTrim ==
    /\ C11_TrimmedFitsAccepted
    /\ C11_TrimmedLongRejected
    /\ C11_StoredTrimmedOrAbsent

=============================================================================
